---- MODULE Spec2Model ----
(***************************************************************************)
(* Model of SolarControl.ino: the pump controller that loop() runs every   *)
(* MS_BETWEEN_CONTROL_CYCLES milliseconds.                                 *)
(*                                                                         *)
(* Time.  The sketch keeps the timestamps lastSwitchMillis and             *)
(* lastPumpOnMillis and only ever reads them as millis() - timestamp.  The *)
(* model keeps those two differences (sinceLastSwitch, sinceLastPumpOn):   *)
(* a timestamp is "unchanged" by a step that leaves its difference alone   *)
(* while no time passes, and "set to now" when its difference becomes 0.   *)
(* One control cycle is taken to read one value of millis().  The time     *)
(* constants are the values the source text writes (an int of at least 32  *)
(* bits).                                                                  *)
(*                                                                         *)
(* Temperatures.  A reading is an integer number of sensor steps; at the   *)
(* configured TEMPERATURE_PRECISION a step is half a degree.               *)
(***************************************************************************)
EXTENDS Integers, Sequences, FiniteSets, TLC

\* ------------------------------------------------------------ constants
TEMPERATURE_PRECISION == 9
MAX_TANK_TEMPERATURE == 60
MIN_PANEL_TEMP_DIFF == 10
MIN_HOT_COLD_TEMP_DIFF == 1
MIN_MS_BETWEEN_SWITCHES == 60*1000
MS_BETWEEN_CONTROL_CYCLES == 2000
MAX_MS_BETWEEN_TEMP_CHECK == 30*60*1000
MIN_MS_TEMP_CHECK == 30*1000
SERIAL_BUFFER_SIZE == 128

HIGH == "HIGH"
LOW == "LOW"

\* Sensor steps per degree at TEMPERATURE_PRECISION bits (9 bits: 0.5 degree).
StepsPerDegree == 2^(TEMPERATURE_PRECISION - 8)
Deg(d) == d * StepsPerDegree

\* ------------------------------------------------------------ bounds
\* Milliseconds by which a control cycle starts after the scheduler's
\* threshold has passed (the cadence is fixed).
LoopLatency == 500
\* Control cycles modelled beyond the temp check deadline.
MaxExtraCycles == 3

\* Characters the receive buffer of Serial holds until they are read.
MaxPending == 2
\* Lines the peer on the serial line sends.
MaxLines == 2

\* Milliseconds between two control cycles.
Cadence == MS_BETWEEN_CONTROL_CYCLES + LoopLatency
MaxElapsed == MAX_MS_BETWEEN_TEMP_CHECK + MaxExtraCycles * Cadence

\* What the temperature library reports for a sensor that does not answer.
Disconnected == Deg(-127)
\* Readings the sensors are given in the model (in steps).
ColdSamples == {Deg(-10), Deg(50), Deg(60) + 1}
HotSamples == {Disconnected, Deg(50) + 1, Deg(51)}
TankSamples == {Deg(400), Deg(40), Deg(60)}
PanelSamples == {Disconnected, Deg(30), Deg(50), Deg(75)}

VARIABLES
  currentPumpState,          \* HIGH (on) or LOW (off)
  runningTempCheck,          \* the temp check ("verification") flag
  sinceLastSwitch,           \* millis() - lastSwitchMillis
  sinceLastPumpOn,           \* millis() - lastPumpOnMillis
  pc,                        \* position in loop(): "loop", "controlPump", "printSystemState"
  tempCold, tempHot, tempTank, tempPanel,   \* the readings of the current cycle
  emergencyShutoffTriggered, \* water in the pump housing, as read in the current cycle
  desiredPumpState,          \* controlPump's local
  output,                    \* what the last step wrote to Serial (pump messages only)
  atEntry,                   \* the controller state (and pumpOnTrigger) on entry to the current controlPump call
  pumpOnTrigger,             \* what started the current ON period ("none" while the pump is off)
  requestRejected,           \* the last controlPump call printed "too short since last state change"
  serialBuffer,              \* the characters of the input line collected so far
  inputReady,                \* a newline has been read, the line waits to be handled
  rxQueue,                   \* characters received by Serial and not yet read (Serial.available())
  toSend,                    \* what the peer has still to send of its current line
  linesSent,                 \* the lines the peer has started to send, in order
  serialOutput               \* the responses handleInput has printed

controlVars == <<currentPumpState, runningTempCheck, sinceLastSwitch, sinceLastPumpOn, pc,
                 tempCold, tempHot, tempTank, tempPanel, emergencyShutoffTriggered,
                 desiredPumpState, output, atEntry, pumpOnTrigger, requestRejected>>
serialVars == <<serialBuffer, inputReady, rxQueue, toSend, linesSent, serialOutput>>
vars == <<controlVars, serialVars>>

\* ------------------------------------------------------------ messages
MsgTooLong == "-- Turning pump ON, too long since last cycle"
MsgInvalidCold == "-- Turning pump OFF, invalid cold temp"
MsgInvalidHotPanel == "-- Turning pump OFF, invalid hot and panel temp"
MsgTankTooHot == "-- Turning pump OFF, tank too hot"
MsgNotWarmer == "-- Turning pump OFF, panel return water not much warmer (or colder) than panel input"
MsgPanelsHot == "-- Turning pump ON, panels are hot"
MsgWater == "WATER IN PUMP HOUSING"
MsgTooShort == "-- Pump state change requested but too short since last state change"
NoMsg == ""

\* ------------------------------------------------------------ controlPump
isValidTemperature(temp) == temp > Deg(-10) /\ temp < Deg(400)

\* Mutant: the temp check rule forgets the missing tank reading.
tempCheckDue_noTankValidity(sincePumpOn, tTank, tPanel) ==
  /\ sincePumpOn > MAX_MS_BETWEEN_TEMP_CHECK
  /\ \/ ~isValidTemperature(tPanel)
     \/ tPanel + Deg(10) > tTank

\* Mutant: the temp check rule forgets the missing panel reading.
tempCheckDue_noPanelValidity(sincePumpOn, tTank, tPanel) ==
  /\ sincePumpOn > MAX_MS_BETWEEN_TEMP_CHECK
  /\ \/ ~isValidTemperature(tTank)
     \/ tPanel + Deg(10) > tTank

\* Mutant: the temp check rule with the comparison the other way round.
tempCheckDue_farColder(sincePumpOn, tTank, tPanel) ==
  /\ sincePumpOn > MAX_MS_BETWEEN_TEMP_CHECK
  /\ \/ ~isValidTemperature(tTank)
     \/ ~isValidTemperature(tPanel)
     \/ tPanel + Deg(10) <= tTank

\* The condition of the first branch: a temp check is due.
tempCheckDue(sincePumpOn, tTank, tPanel) ==
  /\ sincePumpOn > MAX_MS_BETWEEN_TEMP_CHECK
  /\ \/ ~isValidTemperature(tTank)
     \/ ~isValidTemperature(tPanel)
     \/ tPanel + Deg(10) > tTank

\* Computed at the top of the pump-is-on branch and never read afterwards.
tempHotWithAlt(tHot, tPanel) == IF isValidTemperature(tHot) THEN tHot ELSE tPanel

\* Mutant: the pump-is-on rules without the check of the cold reading.
pumpOnRule_noColdCheck(tCold, tHot, tPanel) ==
  IF ~isValidTemperature(tHot) /\ ~isValidTemperature(tPanel) THEN MsgInvalidHotPanel
  ELSE IF tCold > Deg(MAX_TANK_TEMPERATURE) THEN MsgTankTooHot
  ELSE IF tHot - tCold < Deg(MIN_HOT_COLD_TEMP_DIFF) THEN MsgNotWarmer
  ELSE NoMsg

\* Mutant: the heat gain test also turns the pump off at exactly the minimum.
pumpOnRule_atMinimum(tCold, tHot, tPanel) ==
  IF ~isValidTemperature(tCold) THEN MsgInvalidCold
  ELSE IF ~isValidTemperature(tHot) /\ ~isValidTemperature(tPanel) THEN MsgInvalidHotPanel
  ELSE IF tCold > Deg(MAX_TANK_TEMPERATURE) THEN MsgTankTooHot
  ELSE IF tHot - tCold <= Deg(MIN_HOT_COLD_TEMP_DIFF) THEN MsgNotWarmer
  ELSE NoMsg

\* The branch taken when the pump is on: the message of the rule that matched.
pumpOnRule(tCold, tHot, tPanel) ==
  IF ~isValidTemperature(tCold) THEN MsgInvalidCold
  ELSE IF ~isValidTemperature(tHot) /\ ~isValidTemperature(tPanel) THEN MsgInvalidHotPanel
  ELSE IF tCold > Deg(MAX_TANK_TEMPERATURE) THEN MsgTankTooHot
  ELSE IF tHot - tCold < Deg(MIN_HOT_COLD_TEMP_DIFF) THEN MsgNotWarmer
  ELSE NoMsg

\* Mutant: the pump-is-off rule without the maximum tank temperature.
pumpOffRule_noMaxTank(tTank, tPanel) ==
  IF /\ isValidTemperature(tPanel)
     /\ isValidTemperature(tTank)
     /\ tPanel - tTank > Deg(MIN_PANEL_TEMP_DIFF)
  THEN MsgPanelsHot
  ELSE NoMsg

\* Mutant: the pump-is-off rule with the difference taken the wrong way round.
pumpOffRule_swapped(tTank, tPanel) ==
  IF /\ isValidTemperature(tPanel)
     /\ isValidTemperature(tTank)
     /\ tTank < Deg(MAX_TANK_TEMPERATURE)
     /\ tTank - tPanel > Deg(MIN_PANEL_TEMP_DIFF)
  THEN MsgPanelsHot
  ELSE NoMsg

\* The branch taken when the pump is off.
pumpOffRule(tTank, tPanel) ==
  IF /\ isValidTemperature(tPanel)
     /\ isValidTemperature(tTank)
     /\ tTank < Deg(MAX_TANK_TEMPERATURE)
     /\ tPanel - tTank > Deg(MIN_PANEL_TEMP_DIFF)
  THEN MsgPanelsHot
  ELSE NoMsg

\* The if / else if / else of the decision: which rule fired.
decisionRule(pump, sincePumpOn, tCold, tHot, tTank, tPanel) ==
  IF tempCheckDue(sincePumpOn, tTank, tPanel) THEN MsgTooLong
  ELSE IF pump = HIGH THEN pumpOnRule(tCold, tHot, tPanel)
  ELSE pumpOffRule(tTank, tPanel)

\* desiredPumpState after the decision and the emergency override.
decideDesired(pump, rule, emergency) ==
  IF emergency THEN LOW
  ELSE IF rule \in {MsgTooLong, MsgPanelsHot} THEN HIGH
  ELSE IF rule = NoMsg THEN pump
  ELSE LOW

\* Mutant: every decision marks the cycle as a temp check.
startTempCheck_always(rule, tempCheck) == TRUE

\* runningTempCheck after the decision: the temp check rule sets it.
startTempCheck(rule, tempCheck) == IF rule = MsgTooLong THEN TRUE ELSE tempCheck

\* Mutant: the emergency does not bypass the wait times.
allowStateChange_noEmergency(emergency, sinceSwitch, tempCheck, desired) ==
  IF sinceSwitch > MIN_MS_TEMP_CHECK /\ tempCheck /\ desired = LOW THEN TRUE
  ELSE IF sinceSwitch > MIN_MS_BETWEEN_SWITCHES THEN TRUE
  ELSE FALSE

\* Mutant: the ordinary wait uses the temp check time.
allowStateChange_shortWait(emergency, sinceSwitch, tempCheck, desired) ==
  IF emergency THEN TRUE
  ELSE IF sinceSwitch > MIN_MS_TEMP_CHECK /\ tempCheck /\ desired = LOW THEN TRUE
  ELSE IF sinceSwitch > MIN_MS_TEMP_CHECK THEN TRUE
  ELSE FALSE

\* Mutant: no quick shutoff during a temp check.
allowStateChange_noQuick(emergency, sinceSwitch, tempCheck, desired) ==
  IF emergency THEN TRUE
  ELSE IF sinceSwitch > MIN_MS_BETWEEN_SWITCHES THEN TRUE
  ELSE FALSE

\* Mutant: the quick shutoff does not ask whether a temp check is running.
allowStateChange_quickAlways(emergency, sinceSwitch, tempCheck, desired) ==
  IF emergency THEN TRUE
  ELSE IF sinceSwitch > MIN_MS_TEMP_CHECK /\ desired = LOW THEN TRUE
  ELSE IF sinceSwitch > MIN_MS_BETWEEN_SWITCHES THEN TRUE
  ELSE FALSE

\* Mutant: the ordinary wait uses the temp check interval.
allowStateChange_longWait(emergency, sinceSwitch, tempCheck, desired) ==
  IF emergency THEN TRUE
  ELSE IF sinceSwitch > MIN_MS_TEMP_CHECK /\ tempCheck /\ desired = LOW THEN TRUE
  ELSE IF sinceSwitch > MAX_MS_BETWEEN_TEMP_CHECK THEN TRUE
  ELSE FALSE

\* allowStateChange, evaluated when the desired state differs from the current one.
allowStateChange_onlyOverrides(emergency, sinceSwitch, tempCheck, desired) ==
  \/ emergency
  \/ (tempCheck /\ desired = LOW /\ sinceSwitch > MIN_MS_TEMP_CHECK)

allowStateChange(emergency, sinceSwitch, tempCheck, desired) ==
  IF emergency THEN TRUE
  ELSE IF sinceSwitch > MIN_MS_TEMP_CHECK /\ tempCheck /\ desired = LOW THEN TRUE
  ELSE IF sinceSwitch > MIN_MS_BETWEEN_SWITCHES THEN TRUE
  ELSE FALSE

\* Mutant: the flag is cleared at the end of every cycle.
endTempCheck_clear(pump, tempCheck) == FALSE

\* Mutant: turning the pump off does not end the temp check.
endTempCheck_keep(pump, tempCheck) == tempCheck

\* runningTempCheck at the end of the cycle.
endTempCheck(pump, tempCheck) == IF pump = HIGH THEN tempCheck ELSE FALSE

\* Mutant: lastPumpOnMillis is refreshed in every cycle.
refreshPumpOn_always(pump, sincePumpOn) == 0

\* millis() - lastPumpOnMillis at the end of the cycle: refreshed while the pump is on.
refreshPumpOn(pump, sincePumpOn) == IF pump = HIGH THEN 0 ELSE sincePumpOn

\* The readings that the cycle uses in an arithmetic comparison (against a
\* threshold or another reading), following the short-circuit evaluation.
comparedReadings(pump, sincePumpOn, tCold, tHot, tTank, tPanel) ==
  LET bothOff == isValidTemperature(tTank) /\ isValidTemperature(tPanel)
      first == IF sincePumpOn > MAX_MS_BETWEEN_TEMP_CHECK /\ bothOff
               THEN {"tank", "panel"} ELSE {}
      due == tempCheckDue(sincePumpOn, tTank, tPanel)
      reachesCold == /\ isValidTemperature(tCold)
                     /\ ~(~isValidTemperature(tHot) /\ ~isValidTemperature(tPanel))
      onBranch == IF ~reachesCold THEN {}
                  ELSE IF tCold > Deg(MAX_TANK_TEMPERATURE) THEN {"cold"}
                  ELSE {"cold", "hot"}
      offBranch == IF ~bothOff THEN {}
                   ELSE IF tTank < Deg(MAX_TANK_TEMPERATURE) THEN {"tank", "panel"}
                   ELSE {"tank"}
  IN first \cup (IF due THEN {} ELSE IF pump = HIGH THEN onBranch ELSE offBranch)

Snapshot(pump, tempCheck, sinceSwitch, sincePumpOn, trigger, rejected) ==
  [pump |-> pump, tempCheck |-> tempCheck, sinceSwitch |-> sinceSwitch,
   sincePumpOn |-> sincePumpOn, trigger |-> trigger, rejected |-> rejected]

\* ------------------------------------------------------------ the machine
\* setup(): the pump starts on, in temp check mode, all timestamps "now".
Init ==
  /\ currentPumpState = HIGH
  /\ runningTempCheck = TRUE
  /\ sinceLastSwitch = 0
  /\ sinceLastPumpOn = 0
  /\ pc = "loop"
  /\ tempCold = Disconnected /\ tempHot = Disconnected
  /\ tempTank = Disconnected /\ tempPanel = Disconnected
  /\ emergencyShutoffTriggered = FALSE
  /\ desiredPumpState = HIGH
  /\ output = <<>>
  /\ atEntry = Snapshot(HIGH, TRUE, 0, 0, "setup", FALSE)
  /\ pumpOnTrigger = "setup"
  /\ requestRejected = FALSE
  /\ serialBuffer = <<>>
  /\ inputReady = FALSE
  /\ rxQueue = <<>>
  /\ toSend = <<>>
  /\ linesSent = <<>>
  /\ serialOutput = <<>>

\* loop(): the scheduler lets a cycle start, the sensors are read and
\* controlPump is entered (its locals are initialised).
StartCycle(sinceSwitch, sincePumpOn) ==
  /\ pc = "loop"
  /\ Cadence > MS_BETWEEN_CONTROL_CYCLES
  /\ sinceLastSwitch' = sinceSwitch
  /\ sinceLastPumpOn' = sincePumpOn
  /\ tempCold' \in ColdSamples
  /\ tempHot' \in HotSamples
  /\ tempTank' \in TankSamples
  /\ tempPanel' \in PanelSamples
  /\ emergencyShutoffTriggered' \in BOOLEAN
  /\ desiredPumpState' = currentPumpState
  /\ output' = <<>>
  /\ atEntry' = Snapshot(currentPumpState, runningTempCheck, sinceLastSwitch', sinceLastPumpOn',
                         pumpOnTrigger, requestRejected)
  /\ pc' = "controlPump"
  /\ UNCHANGED <<currentPumpState, runningTempCheck, pumpOnTrigger, requestRejected>>
  /\ UNCHANGED serialVars

\* A cycle starts one cadence after the last one, while the modelled time lasts.
LoopStartCycle ==
  /\ sinceLastSwitch + Cadence <= MaxElapsed
  /\ StartCycle(sinceLastSwitch + Cadence, sinceLastPumpOn + Cadence)

controlPump ==
  /\ pc = "controlPump"
  /\ LET rule == decisionRule(currentPumpState, sinceLastPumpOn, tempCold, tempHot, tempTank, tempPanel)
         desired == decideDesired(currentPumpState, rule, emergencyShutoffTriggered)
         tempCheck == startTempCheck(rule, runningTempCheck)
         requested == desired # currentPumpState
         allow == requested /\ allowStateChange(emergencyShutoffTriggered, sinceLastSwitch, tempCheck, desired)
         pump == IF allow THEN desired ELSE currentPumpState
     IN /\ desiredPumpState' = desired
        /\ currentPumpState' = pump
        /\ sinceLastSwitch' = IF allow THEN 0 ELSE sinceLastSwitch
        /\ sinceLastPumpOn' = refreshPumpOn(pump, sinceLastPumpOn)
        /\ runningTempCheck' = endTempCheck(pump, tempCheck)
        /\ output' = (IF rule = NoMsg THEN <<>> ELSE <<rule>>)
                     \o (IF emergencyShutoffTriggered THEN <<MsgWater>> ELSE <<>>)
                     \o (IF requested /\ ~allow THEN <<MsgTooShort>> ELSE <<>>)
        /\ pumpOnTrigger' = IF pump = LOW THEN "none"
                            ELSE IF allow
                            THEN (IF rule = MsgTooLong THEN "tempCheck" ELSE "hotPanels")
                            ELSE pumpOnTrigger
        /\ requestRejected' = (requested /\ ~allow)
  /\ pc' = "printSystemState"
  /\ UNCHANGED <<tempCold, tempHot, tempTank, tempPanel, emergencyShutoffTriggered, atEntry>>
  /\ UNCHANGED serialVars

\* The status line; controlPump's locals are gone when the loop returns.
statusLine ==
  <<IF currentPumpState = HIGH THEN "Pump is ON. " ELSE "Pump is OFF. ",
    sinceLastSwitch \div 1000,
    sinceLastPumpOn \div 1000,
    IF currentPumpState = LOW THEN "\n"
    ELSE IF ~runningTempCheck THEN "NO temp check."
    ELSE IF sinceLastSwitch > MIN_MS_TEMP_CHECK THEN "Trigger: temp check, , could turn off."
    ELSE "Trigger: temp check, s remaining.">>

printSystemState ==
  /\ pc = "printSystemState"
  /\ output' = statusLine
  /\ tempCold' = Disconnected /\ tempHot' = Disconnected
  /\ tempTank' = Disconnected /\ tempPanel' = Disconnected
  /\ emergencyShutoffTriggered' = FALSE
  /\ atEntry' = Snapshot(currentPumpState, runningTempCheck, sinceLastSwitch, sinceLastPumpOn,
                         pumpOnTrigger, requestRejected)
  /\ pc' = "loop"
  /\ desiredPumpState' = currentPumpState
  /\ UNCHANGED <<currentPumpState, runningTempCheck, sinceLastSwitch, sinceLastPumpOn, pumpOnTrigger,
                 requestRejected>>
  /\ UNCHANGED serialVars

\* The control cycles of loop() while the serial line is silent: handleInput
\* then finds nothing to read and nothing ready, and changes nothing.
Next == LoopStartCycle \/ controlPump \/ printSystemState

Spec == Init /\ [][Next]_vars

\* The control cycles of a loop() that runs for ever.  Every comparison of an
\* elapsed time is "elapsed > threshold" with a threshold below MaxElapsed,
\* so an elapsed time that has reached MaxElapsed is kept there.
UpTo(limit, elapsed) == IF elapsed > limit THEN limit ELSE elapsed

\* These readings are enough to make every request of a change of pump state
\* and to withdraw it.
LiveStartCycle ==
  /\ StartCycle(UpTo(MaxElapsed, sinceLastSwitch + Cadence), UpTo(MaxElapsed, sinceLastPumpOn + Cadence))
  /\ tempCold' = Deg(50)
  /\ tempHot' \in {Deg(50) + 1, Deg(51)}
  /\ tempTank' \in {Deg(400), Deg(40)}
  /\ tempPanel' \in {Deg(30), Deg(75)}

LiveNext == LiveStartCycle \/ controlPump \/ printSystemState

\* The Arduino core calls loop() again and again and millis() advances, so a
\* step of the cycle that can be taken is taken.
LiveSpec == Init /\ [][LiveNext]_vars /\ WF_vars(LiveNext)

\* ------------------------------------------------------------ handleInput
Newline == "\n"
PingCommands == {<<"p">>, <<"p", "i", "n", "g">>}
\* A line of more characters than serialBuffer takes.
LongLine == [i \in 1..(SERIAL_BUFFER_SIZE + 1) |-> "x"]
\* The lines the peer chooses from.
Lines == PingCommands \cup {<<"x", "p">>, LongLine}

\* The peer starts a line: its characters and the newline that ends it.
PeerStartsLine ==
  /\ toSend = <<>>
  /\ Len(linesSent) < MaxLines
  /\ \E line \in Lines :
       /\ toSend' = Append(line, Newline)
       /\ linesSent' = Append(linesSent, line)
  /\ UNCHANGED <<serialBuffer, inputReady, rxQueue, serialOutput>>
  /\ UNCHANGED controlVars

\* The next character of the line arrives in the receive buffer of Serial.
SerialArrives ==
  /\ toSend # <<>>
  /\ Len(rxQueue) < MaxPending
  /\ rxQueue' = Append(rxQueue, Head(toSend))
  /\ toSend' = Tail(toSend)
  /\ UNCHANGED <<serialBuffer, inputReady, linesSent, serialOutput>>
  /\ UNCHANGED controlVars

\* while (Serial.available()): what the loop leaves in serialBuffer and
\* inputReady after it has read every character of `available'.
RECURSIVE receiveSerialCharacters(_, _, _)
receiveSerialCharacters(available, buffer, ready) ==
  IF available = <<>>
  THEN [serialBuffer |-> buffer, inputReady |-> ready]
  ELSE LET inChar == Head(available)
       IN IF inChar = Newline
          THEN receiveSerialCharacters(Tail(available), buffer, TRUE)
          ELSE IF Len(buffer) < SERIAL_BUFFER_SIZE /\ ~ready
          THEN receiveSerialCharacters(Tail(available), Append(buffer, inChar), ready)
          ELSE receiveSerialCharacters(Tail(available), buffer, ready)

\* handleInput() as loop() calls it when no control cycle is under way.
handleInput ==
  /\ pc = "loop"
  /\ LET received == receiveSerialCharacters(rxQueue, serialBuffer, inputReady)
     IN /\ rxQueue' = <<>>
        /\ IF received.inputReady
           THEN /\ serialBuffer' = <<>>
                /\ inputReady' = FALSE
                /\ serialOutput' = IF received.serialBuffer \in PingCommands
                                   THEN Append(serialOutput, "pong")
                                   ELSE serialOutput
           ELSE /\ serialBuffer' = received.serialBuffer
                /\ inputReady' = FALSE
                /\ UNCHANGED serialOutput
  /\ UNCHANGED <<toSend, linesSent>>
  /\ UNCHANGED controlVars

\* The serial line between two control cycles: the peer sends lines, the
\* loop calls handleInput whenever it comes round.
SerialNext == PeerStartsLine \/ SerialArrives \/ handleInput

SerialSpec == Init /\ [][SerialNext]_vars

\* ------------------------------------------------------------ claims
\* A control cycle has just run: controlPump has returned, its readings and
\* the controller state it was entered with are still at hand.
CycleDone == pc = "printSystemState"
\* The cycle left lastSwitchMillis alone / set lastSwitchMillis to now.
SwitchTimeUnchanged == sinceLastSwitch = atEntry.sinceSwitch
SwitchTimeIsNow == sinceLastSwitch = 0

\* C1: after every control cycle in which the emergency input is asserted the
\* pump is OFF, whatever the readings, the prior state and the elapsed times.
C1_EmergencyEndsOff ==
  (CycleDone /\ emergencyShutoffTriggered) => currentPumpState = LOW

\* C1 witness: the emergency switches a running temp check off before either
\* wait time has passed.
C1_Witness ==
  /\ CycleDone /\ emergencyShutoffTriggered
  /\ atEntry.pump = HIGH /\ atEntry.tempCheck
  /\ atEntry.sinceSwitch < MIN_MS_TEMP_CHECK
  /\ atEntry.sinceSwitch < MIN_MS_BETWEEN_SWITCHES
  /\ currentPumpState = LOW /\ SwitchTimeIsNow

\* C2: a requested change of pump state at most MIN_MS_BETWEEN_SWITCHES after
\* the last switch, with no emergency and no quick temp check shutoff, is
\* rejected: pump state and lastSwitchMillis are as before the cycle.
C2_TooSoonRejected ==
  ( /\ CycleDone
    /\ desiredPumpState # atEntry.pump
    /\ atEntry.sinceSwitch <= MIN_MS_BETWEEN_SWITCHES
    /\ ~emergencyShutoffTriggered
    /\ ~(atEntry.tempCheck /\ desiredPumpState = LOW /\ atEntry.sinceSwitch > MIN_MS_TEMP_CHECK) )
  => (currentPumpState = atEntry.pump /\ SwitchTimeUnchanged)

\* C2 witness: hot panels ask for the pump between the two wait times after
\* it was switched off, and the request is rejected.
C2_Witness ==
  /\ CycleDone /\ ~emergencyShutoffTriggered
  /\ atEntry.pump = LOW /\ desiredPumpState = HIGH
  /\ atEntry.sinceSwitch > MIN_MS_TEMP_CHECK
  /\ atEntry.sinceSwitch <= MIN_MS_BETWEEN_SWITCHES
  /\ currentPumpState = LOW /\ SwitchTimeUnchanged
  /\ output = <<MsgPanelsHot, MsgTooShort>>

\* C3 as stated: a cycle entered with the pump OFF and a valid tank reading
\* not below the maximum ends with the pump OFF, for every panel reading and
\* every elapsed time.
C3_Original ==
  ( /\ CycleDone /\ atEntry.pump = LOW
    /\ isValidTemperature(tempTank)
    /\ tempTank >= Deg(MAX_TANK_TEMPERATURE) )
  => currentPumpState = LOW

\* C3 amended: the same, for the cycles in which the temp check rule does not
\* fire (the pump was on within MAX_MS_BETWEEN_TEMP_CHECK, or the panel
\* reading is valid and at least 10 degrees below the tank reading).
C3_MaxTankKeepsOff ==
  ( /\ CycleDone /\ atEntry.pump = LOW
    /\ isValidTemperature(tempTank)
    /\ tempTank >= Deg(MAX_TANK_TEMPERATURE)
    /\ \/ atEntry.sincePumpOn <= MAX_MS_BETWEEN_TEMP_CHECK
       \/ (isValidTemperature(tempPanel) /\ tempPanel + Deg(10) <= tempTank) )
  => currentPumpState = LOW

\* C3 witness: the tank is at its maximum, the panel much hotter, the wait
\* time since the last switch has passed, and the pump stays off.
C3_Witness ==
  /\ CycleDone /\ atEntry.pump = LOW /\ ~emergencyShutoffTriggered
  /\ tempTank = Deg(MAX_TANK_TEMPERATURE)
  /\ isValidTemperature(tempPanel)
  /\ tempPanel - tempTank > Deg(MIN_PANEL_TEMP_DIFF)
  /\ atEntry.sinceSwitch > MIN_MS_BETWEEN_SWITCHES
  /\ currentPumpState = LOW

\* C4: a cycle entered with the pump ON and an invalid cold reading computes
\* the desired state OFF, whatever the other readings.
C4_InvalidColdDesiresOff ==
  (CycleDone /\ atEntry.pump = HIGH /\ ~isValidTemperature(tempCold))
  => desiredPumpState = LOW

\* C4 witness: the cold reading is invalid while hot and panel readings are
\* valid and no emergency is asserted.
C4_Witness ==
  /\ CycleDone /\ atEntry.pump = HIGH /\ ~emergencyShutoffTriggered
  /\ ~isValidTemperature(tempCold)
  /\ isValidTemperature(tempHot) /\ isValidTemperature(tempPanel)
  /\ desiredPumpState = LOW
  /\ output[1] = MsgInvalidCold

Reading(name) ==
  CASE name = "cold" -> tempCold
    [] name = "hot" -> tempHot
    [] name = "tank" -> tempTank
    [] name = "panel" -> tempPanel

\* C5: in every control cycle each reading that is compared arithmetically
\* (against a threshold or another reading) has passed the validity test.
C5_OnlyValidCompared ==
  CycleDone =>
    \A name \in comparedReadings(atEntry.pump, atEntry.sincePumpOn,
                                 tempCold, tempHot, tempTank, tempPanel) :
      isValidTemperature(Reading(name))

\* C6 as stated: a cycle entered with the pump OFF, panel and tank readings
\* valid, tank below the maximum and panel more than MIN_PANEL_TEMP_DIFF
\* above the tank computes the desired state ON.
C6_Original ==
  ( /\ CycleDone /\ atEntry.pump = LOW
    /\ isValidTemperature(tempPanel) /\ isValidTemperature(tempTank)
    /\ tempTank < Deg(MAX_TANK_TEMPERATURE)
    /\ tempPanel - tempTank > Deg(MIN_PANEL_TEMP_DIFF) )
  => desiredPumpState = HIGH

\* C6 amended: the same, for the cycles in which the emergency input is not
\* asserted.
C6_HotPanelsDesireOn ==
  ( /\ CycleDone /\ atEntry.pump = LOW
    /\ ~emergencyShutoffTriggered
    /\ isValidTemperature(tempPanel) /\ isValidTemperature(tempTank)
    /\ tempTank < Deg(MAX_TANK_TEMPERATURE)
    /\ tempPanel - tempTank > Deg(MIN_PANEL_TEMP_DIFF) )
  => desiredPumpState = HIGH

\* C6 witness: the hot panels rule fires with the pump off and no emergency,
\* and the pump is switched on.
C6_Witness ==
  /\ CycleDone /\ atEntry.pump = LOW /\ ~emergencyShutoffTriggered
  /\ isValidTemperature(tempPanel) /\ isValidTemperature(tempTank)
  /\ tempTank < Deg(MAX_TANK_TEMPERATURE)
  /\ tempPanel - tempTank > Deg(MIN_PANEL_TEMP_DIFF)
  /\ output = <<MsgPanelsHot>>
  /\ desiredPumpState = HIGH /\ currentPumpState = HIGH

\* C7: with no emergency, more than MAX_MS_BETWEEN_TEMP_CHECK since the pump
\* was last on and an invalid tank reading, the desired state is ON and the
\* cycle ends with the pump ON in temp check mode.
C7_ForcedCheckOnMissingTank ==
  ( /\ CycleDone /\ ~emergencyShutoffTriggered
    /\ atEntry.sincePumpOn > MAX_MS_BETWEEN_TEMP_CHECK
    /\ ~isValidTemperature(tempTank) )
  => (desiredPumpState = HIGH /\ currentPumpState = HIGH /\ runningTempCheck)

\* C7 witness: the pump was off, the tank reading is missing while the panel
\* reading is valid, and the temp check switches the pump on.
C7_Witness ==
  /\ CycleDone /\ ~emergencyShutoffTriggered
  /\ atEntry.pump = LOW /\ ~atEntry.tempCheck
  /\ atEntry.sincePumpOn > MAX_MS_BETWEEN_TEMP_CHECK
  /\ ~isValidTemperature(tempTank) /\ isValidTemperature(tempPanel)
  /\ currentPumpState = HIGH /\ runningTempCheck /\ SwitchTimeIsNow

\* C8: a cycle whose desired state equals the pump state it was entered with
\* leaves the pump state, lastSwitchMillis and runningTempCheck as they were
\* (of the controller state only lastPumpOnMillis may differ).
C8_NoRequestNoChange ==
  (CycleDone /\ desiredPumpState = atEntry.pump)
  => /\ currentPumpState = atEntry.pump
     /\ SwitchTimeUnchanged
     /\ runningTempCheck = atEntry.tempCheck

\* C8 witness: the pump stays on during a temp check and only
\* lastPumpOnMillis is refreshed.
C8_Witness ==
  /\ CycleDone /\ desiredPumpState = atEntry.pump
  /\ atEntry.pump = HIGH /\ atEntry.tempCheck /\ runningTempCheck
  /\ sinceLastPumpOn = 0 /\ atEntry.sincePumpOn > 0
  /\ SwitchTimeUnchanged

\* C9: a cycle entered with runningTempCheck true ends with it false exactly
\* when the pump goes from ON to OFF in that cycle (a pump that stays as it
\* is never clears a true flag), and whenever a cycle ends with the pump OFF
\* the flag is false.
C9_CheckEndsWithSwitchOff ==
  CycleDone =>
    /\ (atEntry.tempCheck /\ ~runningTempCheck)
         <=> (atEntry.tempCheck /\ atEntry.pump = HIGH /\ currentPumpState = LOW)
    /\ currentPumpState = LOW => ~runningTempCheck

\* C9 witness: a temp check ends with the pump being switched off by the
\* quick shutoff, before the ordinary wait time has passed.
C9_Witness ==
  /\ CycleDone /\ atEntry.tempCheck /\ atEntry.pump = HIGH
  /\ pumpOnTrigger = "none"
  /\ currentPumpState = LOW /\ ~runningTempCheck /\ SwitchTimeIsNow
  /\ ~emergencyShutoffTriggered
  /\ atEntry.sinceSwitch <= MIN_MS_BETWEEN_SWITCHES

\* C10 as stated: whenever runningTempCheck is true the pump is ON and its ON
\* period began with a switch from OFF to ON made by the temp check rule.
C10_Original ==
  runningTempCheck => (currentPumpState = HIGH /\ pumpOnTrigger = "tempCheck")

\* C10 amended: whenever runningTempCheck is true the pump is ON and its ON
\* period is either the one setup() starts the process in or began with a
\* switch from OFF to ON made by the temp check rule; an ON period started by
\* the hot panels rule never has the flag true.
C10_CheckOnlyFromRuleOrSetup ==
  /\ runningTempCheck => (currentPumpState = HIGH /\ pumpOnTrigger \in {"setup", "tempCheck"})
  /\ pumpOnTrigger = "hotPanels" => ~runningTempCheck

\* C10 witness: the temp check rule has just switched the pump on.
C10_Witness ==
  /\ CycleDone /\ atEntry.pump = LOW /\ ~atEntry.tempCheck
  /\ output = <<MsgTooLong>>
  /\ currentPumpState = HIGH /\ runningTempCheck /\ pumpOnTrigger = "tempCheck"
\* The temp check rule does not fire in the cycle, by its condition.
NoTempCheckDue ==
  \/ atEntry.sincePumpOn <= MAX_MS_BETWEEN_TEMP_CHECK
  \/ /\ isValidTemperature(tempTank) /\ isValidTemperature(tempPanel)
     /\ tempPanel + Deg(10) <= tempTank

\* C11: with the pump ON, none of the four shut-off conditions matching, no
\* temp check due and no emergency, the desired state stays ON and the cycle
\* leaves the pump state and lastSwitchMillis alone, whatever the tank reading.
C11_NoShutoffStaysOn ==
  ( /\ CycleDone /\ atEntry.pump = HIGH
    /\ isValidTemperature(tempCold)
    /\ ~(~isValidTemperature(tempHot) /\ ~isValidTemperature(tempPanel))
    /\ ~(tempCold > Deg(MAX_TANK_TEMPERATURE))
    /\ tempHot - tempCold >= Deg(MIN_HOT_COLD_TEMP_DIFF)
    /\ NoTempCheckDue
    /\ ~emergencyShutoffTriggered )
  => (desiredPumpState = HIGH /\ currentPumpState = HIGH /\ SwitchTimeUnchanged)

\* C11 witness: cold 50, hot 51, the tank reading invalid: the pump stays on
\* and nothing is written.
C11_Witness ==
  /\ CycleDone /\ atEntry.pump = HIGH /\ ~emergencyShutoffTriggered
  /\ tempCold = Deg(50) /\ tempHot = Deg(51)
  /\ ~isValidTemperature(tempTank)
  /\ desiredPumpState = HIGH /\ currentPumpState = HIGH /\ SwitchTimeUnchanged
  /\ output = <<>>

\* C12: a cycle that ends with the pump ON ends with lastPumpOnMillis = now,
\* a cycle that ends with the pump OFF leaves lastPumpOnMillis alone, and a
\* cycle entered with the pump ON finds millis() - lastPumpOnMillis no larger
\* than the time since the previous cycle.
C12_LastOnRefreshedWhileOn ==
  CycleDone =>
    /\ currentPumpState = HIGH => sinceLastPumpOn = 0
    /\ currentPumpState = LOW => sinceLastPumpOn = atEntry.sincePumpOn
    /\ atEntry.pump = HIGH => atEntry.sincePumpOn <= Cadence

\* C12 witness: the pump has been on for several cycles and stays on;
\* lastPumpOnMillis, one cycle old on entry, is refreshed.
C12_Witness ==
  /\ CycleDone /\ atEntry.pump = HIGH /\ currentPumpState = HIGH
  /\ atEntry.sinceSwitch > Cadence
  /\ atEntry.sincePumpOn = Cadence /\ sinceLastPumpOn = 0
\* The temp check rule fired in the cycle (its message was written).
TempCheckFired == Len(output) > 0 /\ output[1] = MsgTooLong
\* The conditions of the pump-is-on and pump-is-off rules, as the source writes them.
ShutoffMatches ==
  \/ ~isValidTemperature(tempCold)
  \/ (~isValidTemperature(tempHot) /\ ~isValidTemperature(tempPanel))
  \/ tempCold > Deg(MAX_TANK_TEMPERATURE)
  \/ tempHot - tempCold < Deg(MIN_HOT_COLD_TEMP_DIFF)
HotPanelsMatches ==
  /\ isValidTemperature(tempPanel) /\ isValidTemperature(tempTank)
  /\ tempTank < Deg(MAX_TANK_TEMPERATURE)
  /\ tempPanel - tempTank > Deg(MIN_PANEL_TEMP_DIFF)

\* C14 as stated: the temp check rule fires exactly when the pump was last on
\* more than MAX_MS_BETWEEN_TEMP_CHECK ago and the tank reading is invalid,
\* or the panel reading is invalid, or panel + 10 <= tank.
C14_Original ==
  CycleDone =>
    ( TempCheckFired <=>
        /\ atEntry.sincePumpOn > MAX_MS_BETWEEN_TEMP_CHECK
        /\ \/ ~isValidTemperature(tempTank)
           \/ ~isValidTemperature(tempPanel)
           \/ tempPanel + Deg(10) <= tempTank )

\* C14 amended: the temp check rule fires exactly when the pump was last on
\* more than MAX_MS_BETWEEN_TEMP_CHECK ago and the tank reading is invalid,
\* or the panel reading is invalid, or panel + 10 > tank.  When it fires (and
\* no emergency is asserted) the desired state is ON and the cycle ends in
\* temp check mode; when it does not fire the pump-is-on and pump-is-off
\* rules decide the desired state.
C14_TempCheckRule ==
  CycleDone =>
    /\ TempCheckFired <=>
         /\ atEntry.sincePumpOn > MAX_MS_BETWEEN_TEMP_CHECK
         /\ \/ ~isValidTemperature(tempTank)
            \/ ~isValidTemperature(tempPanel)
            \/ tempPanel + Deg(10) > tempTank
    /\ (TempCheckFired /\ ~emergencyShutoffTriggered)
         => (desiredPumpState = HIGH /\ runningTempCheck)
    /\ (~TempCheckFired /\ ~emergencyShutoffTriggered /\ atEntry.pump = HIGH)
         => (desiredPumpState = LOW <=> ShutoffMatches)
    /\ (~TempCheckFired /\ ~emergencyShutoffTriggered /\ atEntry.pump = LOW)
         => (desiredPumpState = HIGH <=> HotPanelsMatches)

\* C14 witness: after more than MAX_MS_BETWEEN_TEMP_CHECK off, with both
\* readings valid and the panel not 10 degrees colder than the tank, the rule
\* fires although the hot panels rule does not match.
C14_Witness ==
  /\ CycleDone /\ atEntry.pump = LOW /\ ~emergencyShutoffTriggered
  /\ isValidTemperature(tempTank) /\ isValidTemperature(tempPanel)
  /\ tempPanel + Deg(10) > tempTank
  /\ ~HotPanelsMatches
  /\ TempCheckFired /\ desiredPumpState = HIGH /\ runningTempCheck

\* C15: a cycle entered with the pump OFF, both readings valid and the panel
\* at least 10 degrees colder than the tank ends with the pump OFF, however
\* long the pump has been off.
C15_FarColderStaysOff ==
  ( /\ CycleDone /\ atEntry.pump = LOW
    /\ isValidTemperature(tempTank) /\ isValidTemperature(tempPanel)
    /\ tempPanel + Deg(10) <= tempTank )
  => currentPumpState = LOW

\* C15 witness: the pump has been off for more than MAX_MS_BETWEEN_TEMP_CHECK,
\* the tank is below its maximum, the panel 10 degrees colder; nothing happens.
C15_Witness ==
  /\ CycleDone /\ atEntry.pump = LOW /\ ~emergencyShutoffTriggered
  /\ atEntry.sincePumpOn > MAX_MS_BETWEEN_TEMP_CHECK
  /\ isValidTemperature(tempTank) /\ isValidTemperature(tempPanel)
  /\ tempTank < Deg(MAX_TANK_TEMPERATURE)
  /\ tempPanel + Deg(10) <= tempTank
  /\ currentPumpState = LOW /\ output = <<>>

\* C16: with the pump ON in temp check mode, the desired state OFF and no
\* emergency, the switch to OFF is accepted (pump OFF, lastSwitchMillis = now,
\* flag false) when MIN_MS_TEMP_CHECK < time since last switch
\* <= MIN_MS_BETWEEN_SWITCHES, and rejected when the time since the last
\* switch is <= MIN_MS_TEMP_CHECK.
C16_QuickShutoff ==
  ( /\ CycleDone /\ atEntry.pump = HIGH /\ atEntry.tempCheck
    /\ desiredPumpState = LOW /\ ~emergencyShutoffTriggered )
  => /\ ( /\ atEntry.sinceSwitch > MIN_MS_TEMP_CHECK
          /\ atEntry.sinceSwitch <= MIN_MS_BETWEEN_SWITCHES )
        => (currentPumpState = LOW /\ SwitchTimeIsNow /\ ~runningTempCheck)
     /\ atEntry.sinceSwitch <= MIN_MS_TEMP_CHECK
        => (currentPumpState = HIGH /\ SwitchTimeUnchanged /\ runningTempCheck)

\* C16 witness: a temp check started by the elapsed-time rule is shut off
\* between the two wait times.
C16_Witness ==
  /\ CycleDone /\ atEntry.pump = HIGH /\ atEntry.tempCheck
  /\ atEntry.trigger = "tempCheck"
  /\ desiredPumpState = LOW /\ ~emergencyShutoffTriggered
  /\ atEntry.sinceSwitch > MIN_MS_TEMP_CHECK
  /\ atEntry.sinceSwitch <= MIN_MS_BETWEEN_SWITCHES
  /\ currentPumpState = LOW /\ SwitchTimeIsNow /\ ~runningTempCheck

\* C17: an ON period started by the hot panels rule is not a temp check, and
\* without an emergency it is only ended by a cycle that finds more than
\* MIN_MS_BETWEEN_SWITCHES since the last switch.
C17_HotPanelsPeriodKeepsLongWait ==
  CycleDone =>
    /\ (atEntry.pump = HIGH /\ atEntry.trigger = "hotPanels") => ~atEntry.tempCheck
    /\ ( /\ atEntry.pump = HIGH /\ atEntry.trigger = "hotPanels"
         /\ currentPumpState = LOW /\ ~emergencyShutoffTriggered )
       => atEntry.sinceSwitch > MIN_MS_BETWEEN_SWITCHES

\* C17 witness: in an ON period started by the hot panels rule a switch to
\* OFF is asked for after MIN_MS_TEMP_CHECK but within
\* MIN_MS_BETWEEN_SWITCHES, and is rejected.
C17_Witness ==
  /\ CycleDone /\ atEntry.pump = HIGH /\ atEntry.trigger = "hotPanels"
  /\ desiredPumpState = LOW /\ ~emergencyShutoffTriggered
  /\ atEntry.sinceSwitch > MIN_MS_TEMP_CHECK
  /\ atEntry.sinceSwitch <= MIN_MS_BETWEEN_SWITCHES
  /\ currentPumpState = HIGH /\ SwitchTimeUnchanged
  /\ output[Len(output)] = MsgTooShort

\* C18: when the temp check rule fires in a cycle entered with the pump OFF
\* and no emergency asserted, the switch to ON is accepted in that cycle.
C18_TempCheckNeverTooSoon ==
  (CycleDone /\ atEntry.pump = LOW /\ ~emergencyShutoffTriggered /\ TempCheckFired)
  => (currentPumpState = HIGH /\ SwitchTimeIsNow)

\* C18 witness: the rule fires in the first cycle in which the pump has been
\* off for more than MAX_MS_BETWEEN_TEMP_CHECK, and the pump is switched on.
C18_Witness ==
  /\ CycleDone /\ atEntry.pump = LOW /\ ~emergencyShutoffTriggered
  /\ TempCheckFired
  /\ atEntry.sincePumpOn <= MAX_MS_BETWEEN_TEMP_CHECK + Cadence
  /\ atEntry.sinceSwitch > MIN_MS_BETWEEN_SWITCHES
  /\ currentPumpState = HIGH /\ SwitchTimeIsNow /\ output = <<MsgTooLong>>

\* C19: with the pump ON, the cold reading valid and not above the maximum,
\* the hot reading invalid and the panel reading valid (no emergency), the
\* panel reading stands in for the hot one: the desired state is OFF exactly
\* when panel - cold < MIN_HOT_COLD_TEMP_DIFF.
C19_PanelStandsInForHot ==
  ( /\ CycleDone /\ atEntry.pump = HIGH /\ ~emergencyShutoffTriggered
    /\ isValidTemperature(tempCold)
    /\ ~(tempCold > Deg(MAX_TANK_TEMPERATURE))
    /\ ~isValidTemperature(tempHot)
    /\ isValidTemperature(tempPanel) )
  => (desiredPumpState = LOW <=> tempPanel - tempCold < Deg(MIN_HOT_COLD_TEMP_DIFF))

\* ---- C13
\* Everything the peer has sent has been read and handled.
AllHandled == toSend = <<>> /\ rxQueue = <<>> /\ ~inputReady

PingLinesSent == Cardinality({i \in DOMAIN linesSent : linesSent[i] \in PingCommands})

\* C13: however the received characters are split across calls of
\* handleInput, every line that is exactly "p" or "ping" is answered by one
\* "pong" and no other line is answered: once all sent lines are handled
\* there are as many responses as "p"/"ping" lines.
C13_OnePongPerPingLine ==
  AllHandled => Len(serialOutput) = PingLinesSent

\* ---- C20
\* The cycle asked for a change of pump state and the switch guard refused it.
Rejected == CycleDone /\ desiredPumpState # atEntry.pump /\ currentPumpState = atEntry.pump
\* The cycle asked for a change of pump state and the pump was switched.
Accepted == CycleDone /\ desiredPumpState # atEntry.pump /\ currentPumpState = desiredPumpState
\* The cycle asked for no change of pump state.
NotRequested == CycleDone /\ desiredPumpState = atEntry.pump

\* C20: while control cycles keep running, a rejected request for a change of
\* pump state is followed by a cycle that carries the change out or by a
\* cycle that no longer asks for it (the pump does not stay for ever in a
\* state every cycle asks to leave), and a request made more than
\* MIN_MS_BETWEEN_SWITCHES after the last switch is never rejected.
C20_RejectedEventuallyCarriedOut ==
  /\ [](Rejected => atEntry.sinceSwitch <= MIN_MS_BETWEEN_SWITCHES)
  /\ (Rejected ~> (Accepted \/ NotRequested))

\* The request rejected by the cycle before is accepted, by the ordinary
\* rule, in the first cycle more than MIN_MS_BETWEEN_SWITCHES after the last switch.
C20_Witness ==
  /\ Accepted
  /\ atEntry.rejected
  /\ ~emergencyShutoffTriggered
  /\ desiredPumpState = HIGH
  /\ atEntry.sinceSwitch > MIN_MS_BETWEEN_SWITCHES
  /\ atEntry.sinceSwitch - Cadence <= MIN_MS_BETWEEN_SWITCHES

====
